---------------------------- MODULE Spec2Model ----------------------------
(***************************************************************************)
(* Verification model of the jpacPhoto core:                               *)
(*   - the contract() overload set over Lorentz tensors (contract.hpp),    *)
(*   - the two-channel K-matrix partial wave (two_channel.hpp),            *)
(*   - the triple-Regge inclusive cross-section (triple_regge.cpp and      *)
(*     inclusive_production.hpp),                                          *)
(*   - amplitude construction and parameter assignment.                    *)
(* Each subsystem has its own specification; the variables of the other    *)
(* subsystems stay at their initial values in it.                          *)
(***************************************************************************)
EXTENDS Integers, Sequences, FiniteSets, TLC

VARIABLES
    left, right,        \* the two operands of contract()
    cres, cdone,        \* contract(left, right) and whether it was called
    cresSw, cdoneSw,    \* contract(right, left) and whether it was called
    ctrace              \* the overload that served contract(left, right) and the
                        \* index sequences it enumerated

contractVars == <<left, right, cres, cdone, cresSw, cdoneSw, ctrace>>

VARIABLES
    tc,                 \* the fields of one two_channel object
    tpc, targ,          \* per caller: position in helicity_amplitude/evaluate, arguments
    tleg, tlegd,        \* per caller: the Legendre factor read, and whether it was read
    tev, tret,          \* per caller: value of evaluate(), value of helicity_amplitude()
    tprev               \* the kinematic point of the last evaluation completed (0: none)

twoChannelVars == <<tc, tpc, targ, tleg, tlegd, tev, tret, tprev>>

VARIABLES
    tr,                 \* the fields of one triple_regge object
    heap,               \* the total-cross-section sub-models allocated with new
    kin_s,              \* _kinematics->_s of the inclusive_kinematics object
    trRet, trCalled,    \* last d3sigma_d3p: its value, the collaborators it evaluated
    trSel,              \* how the sub-model was last chosen (initialize or an option)
    trCall,             \* last d3sigma_d3p: its arguments, the mode and trSel at the call
    trErr               \* a memory error that happened, if any

reggeVars == <<tr, heap, kin_s, trRet, trCalled, trSel, trCall, trErr>>

VARIABLES
    br,                 \* a baryon_resonance under construction / constructed
    vme,                \* a vector_meson_exchange
    tcs,                \* the parameters of a two_channel set by allocate_parameters
    setupProc           \* the process doing the setup: running, exited or crashed

setupVars == <<br, vme, tcs, setupProc>>

VARIABLES
    ipObj,              \* the inclusive_production objects: state and _kinematics
    kinHeap,            \* the heap of inclusive_kinematics objects
    ipErr               \* a memory error that happened, if any

ownerVars == <<ipObj, kinHeap, ipErr>>

vars == <<contractVars, twoChannelVars, reggeVars, setupVars, ownerVars>>

notContract == <<twoChannelVars, reggeVars, setupVars, ownerVars>>

notTwoChannel == <<contractVars, reggeVars, setupVars, ownerVars>>

notRegge == <<contractVars, twoChannelVars, setupVars, ownerVars>>

notSetup == <<contractVars, twoChannelVars, reggeVars, ownerVars>>

notOwner == <<contractVars, twoChannelVars, reggeVars, setupVars>>

-----------------------------------------------------------------------------
(* Exact complex arithmetic.  A complex number is <<re, im, den>> standing  *)
(* for (re + i*im)/den with den > 0 and the three in lowest terms.  A       *)
(* division by zero gives NonFinite (an IEEE inf/nan), which every later    *)
(* sum and product keeps non-finite.                                        *)

Abs(n) == IF n < 0 THEN -n ELSE n

RECURSIVE GCD(_, _)
GCD(a, b) == IF b = 0 THEN a ELSE GCD(b, a % b)

NonFinite == <<0, 0, 0>>

IsFinite(x) == x[3] # 0

CNorm(re, im, den) ==
    IF den = 0 THEN NonFinite
    ELSE IF den = 1 THEN <<re, im, 1>>
    ELSE LET g == GCD(GCD(Abs(re), Abs(im)), Abs(den))
             sg == IF den < 0 THEN -1 ELSE 1
         IN  <<sg * (re \div g), sg * (im \div g), sg * (den \div g)>>

CInt(n) == <<n, 0, 1>>

CZero == CInt(0)

COne == CInt(1)

CI == <<0, 1, 1>>

CAdd(x, y) ==
    IF ~IsFinite(x) \/ ~IsFinite(y) THEN NonFinite
    ELSE CNorm(x[1] * y[3] + y[1] * x[3], x[2] * y[3] + y[2] * x[3], x[3] * y[3])

CNeg(x) == IF ~IsFinite(x) THEN NonFinite ELSE <<-x[1], -x[2], x[3]>>

CSub(x, y) == CAdd(x, CNeg(y))

CMul(x, y) ==
    IF ~IsFinite(x) \/ ~IsFinite(y) THEN NonFinite
    ELSE CNorm(x[1] * y[1] - x[2] * y[2], x[1] * y[2] + x[2] * y[1], x[3] * y[3])

CDiv(x, y) ==
    IF ~IsFinite(x) \/ ~IsFinite(y) THEN NonFinite
    ELSE CNorm((x[1] * y[1] + x[2] * y[2]) * y[3],
               (x[2] * y[1] - x[1] * y[2]) * y[3],
               (y[1] * y[1] + y[2] * y[2]) * x[3])

RECURSIVE CPow(_, _)
CPow(x, n) == IF n = 0 THEN COne ELSE CMul(x, CPow(x, n - 1))

-----------------------------------------------------------------------------
(* Dirac matrices: 4x4 matrices of complex numbers, with the matrix sum,    *)
(* the product by an integer and the matrix product.                        *)

Dim == 1..4

DZero == [i \in Dim |-> [j \in Dim |-> CZero]]

DId == [i \in Dim |-> [j \in Dim |-> IF i = j THEN COne ELSE CZero]]

DAdd(a, b) == [i \in Dim |-> [j \in Dim |-> CAdd(a[i][j], b[i][j])]]

DScale(n, a) == [i \in Dim |-> [j \in Dim |-> CMul(CInt(n), a[i][j])]]

DMul(a, b) ==
    [i \in Dim |-> [j \in Dim |->
        CAdd(CAdd(CMul(a[i][1], b[1][j]), CMul(a[i][2], b[2][j])),
             CAdd(CMul(a[i][3], b[3][j]), CMul(a[i][4], b[4][j])))]]

FromRows(rows) == [i \in Dim |-> [j \in Dim |-> rows[i][j]]]

mI == CNeg(CI)

mOne == CInt(-1)

Gamma0 == FromRows(<< <<COne, CZero, CZero, CZero>>, <<CZero, COne, CZero, CZero>>,
                      <<CZero, CZero, mOne, CZero>>, <<CZero, CZero, CZero, mOne>> >>)

Gamma1 == FromRows(<< <<CZero, CZero, CZero, COne>>, <<CZero, CZero, COne, CZero>>,
                      <<CZero, mOne, CZero, CZero>>, <<mOne, CZero, CZero, CZero>> >>)

Gamma2 == FromRows(<< <<CZero, CZero, CZero, mI>>, <<CZero, CZero, CI, CZero>>,
                      <<CZero, CI, CZero, CZero>>, <<mI, CZero, CZero, CZero>> >>)

Gamma3 == FromRows(<< <<CZero, CZero, COne, CZero>>, <<CZero, CZero, CZero, mOne>>,
                      <<mOne, CZero, CZero, CZero>>, <<CZero, COne, CZero, CZero>> >>)

-----------------------------------------------------------------------------
(* contract.hpp.  A lorentz_tensor<Type,R> is                               *)
(*   [rank |-> R, etype |-> "complex" or "dirac", comp |-> f]               *)
(* with f total on the index sequences of length R over {0,1,2,3}.          *)

LorentzIndex == 0..3

Ranks == 0..2

IndexSeqs(R) == [1..R -> LorentzIndex]

(* permutations(N): every index sequence of length N, in lexicographic      *)
(* order.                                                                   *)
RECURSIVE permutations(_)
permutations(N) ==
    IF N = 0 THEN << <<>> >>
    ELSE LET prev == permutations(N - 1)
             ext(p) == [mu \in 1..4 |-> Append(p, mu - 1)]
             RECURSIVE cat(_)
             cat(k) == IF k = 0 THEN <<>> ELSE cat(k - 1) \o ext(prev[k])
         IN  cat(Len(prev))

(* metric(mu) along the diagonal, and its product over a sequence.          *)
metric(mu) == IF mu = 0 THEN 1 ELSE -1

RECURSIVE metricSeq(_)
metricSeq(perm) ==
    IF Len(perm) = 0 THEN 1 ELSE metric(Head(perm)) * metricSeq(Tail(perm))

(* The algebra of an element type: identity<Type>(), +, int * Type, and     *)
(* Type * Type.                                                             *)
EZero(etype) == IF etype = "complex" THEN CZero ELSE DZero

EAdd(etype, a, b) == IF etype = "complex" THEN CAdd(a, b) ELSE DAdd(a, b)

EScale(etype, n, a) == IF etype = "complex" THEN CMul(CInt(n), a) ELSE DScale(n, a)

EMul(etype, a, b) == IF etype = "complex" THEN CMul(a, b) ELSE DMul(a, b)

(* template<class Type> Type contract(Type left, Type right)                *)
contractScalarKeepsLeft(etype, l, r) == EMul(etype, l, l)

contractScalar(etype, l, r) == EMul(etype, l, r)

RECURSIVE contractLoopFirstIndexSign(_, _, _, _, _)
contractLoopFirstIndexSign(etype, l, r, perms, k) ==
    IF k = 0 THEN EZero(etype)
    ELSE EAdd(etype, contractLoopFirstIndexSign(etype, l, r, perms, k - 1),
              EScale(etype, IF Len(perms[k]) = 0 THEN 1 ELSE metric(perms[k][1]),
                     contractScalar(etype, l.comp[perms[k]], r.comp[perms[k]])))

(* One pass of "sum += metric(perm) * contract(left(perm), right(perm))"    *)
(* over the first k entries of perms.                                       *)
RECURSIVE contractLoop(_, _, _, _, _)
contractLoop(etype, l, r, perms, k) ==
    IF k = 0 THEN EZero(etype)
    ELSE EAdd(etype, contractLoop(etype, l, r, perms, k - 1),
              EScale(etype, metricSeq(perms[k]),
                     contractScalar(etype, l.comp[perms[k]], r.comp[perms[k]])))

RECURSIVE contractLoopNoMetric(_, _, _, _, _)
contractLoopNoMetric(etype, l, r, perms, k) ==
    IF k = 0 THEN EZero(etype)
    ELSE EAdd(etype, contractLoopNoMetric(etype, l, r, perms, k - 1),
              contractScalar(etype, l.comp[perms[k]], r.comp[perms[k]]))

contract_loop_count_short(perms) ==
    IF Len(perms) > 1 THEN Len(perms) - 1 ELSE Len(perms)

(* "for (auto perm : permutations(R))" goes through every element of the    *)
(* vector: the number of passes of the loop.                                *)
contract_loop_count(perms) == Len(perms)

(* template<int R> complex contract(lorentz_tensor<complex,R>,              *)
(*                                  lorentz_tensor<complex,R>)              *)
contractComplexNoMetric(l, r) ==
    LET perms == permutations(l.rank)
    IN  contractLoopNoMetric("complex", l, r, perms, Len(perms))

contractComplex(l, r) ==
    LET perms == permutations(l.rank)
    IN  contractLoop("complex", l, r, perms, contract_loop_count(perms))

(* template<class LType, class RType, int R> auto contract(                 *)
(*     lorentz_tensor<LType,R>, lorentz_tensor<RType,R>), used here with    *)
(* LType = RType.                                                           *)
contractGeneric(l, r) ==
    LET perms == permutations(l.rank)
    IN  contractLoop(l.etype, l, r, perms, contract_loop_count(perms))

(* Overload resolution.  Two operands that are no tensors take the scalar   *)
(* template; for two complex tensors the complex/complex template is the    *)
(* most specialised one; tensors of another element type take the generic   *)
(* tensor template (named with its template arguments, contract<L,R,N>).    *)
contract_overload(l, r) ==
    IF ~l.tensor THEN "scalar"
    ELSE IF l.etype = "complex" /\ r.etype = "complex" THEN "complex_tensor"
    ELSE "generic_tensor"

contract(l, r) ==
    CASE contract_overload(l, r) = "scalar" ->
            contractScalar(l.etype, l.comp[<<>>], r.comp[<<>>])
      [] contract_overload(l, r) = "complex_tensor" -> contractComplex(l, r)
      [] OTHER -> contractGeneric(l, r)

(* The index sequences the loop of the overload serving contract(l, r)      *)
(* goes through, in order; the scalar overload has no loop.                 *)
contract_enumerated(l, r) ==
    IF contract_overload(l, r) = "scalar" THEN << >>
    ELSE LET perms == permutations(l.rank)
         IN  SubSeq(perms, 1, contract_loop_count(perms))

NoTrace == [overload |-> "none", enumerated |-> << >>]

-----------------------------------------------------------------------------
(* The operands contract() is applied to.                                   *)

NComp == 3

CompList == <<CI, CInt(2), CZero, <<-1, 1, 1>>, COne, <<1, -2, 1>> >>

CompVals == {CompList[k] : k \in 1..NComp}

DiracVals == {DId, Gamma0, Gamma1, Gamma2, Gamma3}

Plain(etype, v) == [tensor |-> FALSE, rank |-> 0, etype |-> etype, comp |-> [p \in IndexSeqs(0) |-> v]]

Tensor(etype, R, comp) == [tensor |-> TRUE, rank |-> R, etype |-> etype, comp |-> comp]

Outer(etype, u, v) == Tensor(etype, 2, [p \in IndexSeqs(2) |-> EMul(etype, u[p[1]], v[p[2]])])

ComplexVectors == [LorentzIndex -> CompVals]

SampleVectors ==
    { [mu \in LorentzIndex |-> IF mu = 0 THEN a ELSE IF mu = k THEN b ELSE CZero] :
        a \in {COne, CI}, b \in {CI, CInt(2)}, k \in {1, 3} }

DiracVectors == [LorentzIndex -> {Gamma0, Gamma1}]

SampleDiracVectors ==
    { [mu \in LorentzIndex |-> IF mu = 0 THEN a ELSE IF mu = 2 THEN b ELSE DZero] :
        a \in {Gamma0, Gamma3}, b \in {Gamma1, Gamma2} }

Operands(etype, tensor, R) ==
    IF ~tensor THEN {Plain(etype, v) : v \in IF etype = "complex" THEN CompVals ELSE DiracVals}
    ELSE IF etype = "complex" THEN
        CASE R = 0 -> {Tensor("complex", 0, [p \in IndexSeqs(0) |-> v]) : v \in CompVals}
          [] R = 1 -> {Tensor("complex", 1, [p \in IndexSeqs(1) |-> u[p[1]]]) : u \in ComplexVectors}
          [] OTHER -> {Outer("complex", u, v) : u \in SampleVectors, v \in SampleVectors}
    ELSE
        CASE R = 0 -> {Tensor("dirac", 0, [p \in IndexSeqs(0) |-> v]) : v \in DiracVals}
          [] R = 1 -> {Tensor("dirac", 1, [p \in IndexSeqs(1) |-> u[p[1]]]) : u \in DiracVectors}
          [] OTHER -> {Outer("dirac", u, v) : u \in SampleDiracVectors, v \in {[mu \in LorentzIndex |-> Gamma0]}}

ContractInit ==
    /\ \E etype \in {"complex", "dirac"}, tensor \in BOOLEAN, R \in Ranks :
          /\ (~tensor => R = 0)
          /\ left \in Operands(etype, tensor, R)
          /\ right \in Operands(etype, tensor, R)
    /\ cres = EZero(left.etype)
    /\ cresSw = EZero(left.etype)
    /\ cdone = FALSE
    /\ cdoneSw = FALSE
    /\ ctrace = NoTrace

(* A call contract(left, right).                                            *)
ContractCall ==
    /\ ~cdone
    /\ cres' = contract(left, right)
    /\ cdone' = TRUE
    /\ ctrace' = [overload |-> contract_overload(left, right),
                  enumerated |-> contract_enumerated(left, right)]
    /\ UNCHANGED <<left, right, cresSw, cdoneSw>>
    /\ UNCHANGED notContract

(* A call contract(right, left), the operands exchanged.                    *)
ContractSwapped ==
    /\ ~cdoneSw
    /\ cresSw' = contract(right, left)
    /\ cdoneSw' = TRUE
    /\ UNCHANGED <<left, right, cres, cdone, ctrace>>
    /\ UNCHANGED notContract

ContractNext == ContractCall \/ ContractSwapped

(* C1: for two rank-1 tensors of complex components, contract(A, B) is the  *)
(* Minkowski inner product A0*B0 - A1*B1 - A2*B2 - A3*B3.                   *)
C1_Minkowski ==
    (cdone /\ left.tensor /\ left.rank = 1 /\ left.etype = "complex") =>
        cres = CSub(CSub(CSub(CMul(left.comp[<<0>>], right.comp[<<0>>]),
                              CMul(left.comp[<<1>>], right.comp[<<1>>])),
                         CMul(left.comp[<<2>>], right.comp[<<2>>])),
                    CMul(left.comp[<<3>>], right.comp[<<3>>]))

C1_Witness ==
    /\ cdone /\ left.tensor /\ left.rank = 1 /\ left.etype = "complex"
    /\ \A mu \in LorentzIndex : left.comp[<<mu>>] # CZero /\ right.comp[<<mu>>] # CZero
    /\ left # right
    /\ cres # CZero

(* C2 as stated: contract(A, B) = contract(B, A) for tensors of the same    *)
(* rank and element type, complex or Dirac matrix.                          *)
C2_SymmetricAnyType ==
    (cdone /\ cdoneSw /\ left.tensor) => cres = cresSw

(* C2 amended: contract(A, B) = contract(B, A) for tensors of the same rank *)
(* in 0..2 whose elements are complex numbers.                              *)
C2_SymmetricComplex ==
    (cdone /\ cdoneSw /\ left.tensor /\ left.etype = "complex") => cres = cresSw

C2_Witness ==
    /\ cdone /\ cdoneSw /\ left.tensor /\ left.etype = "complex" /\ left.rank = 2
    /\ left # right
    /\ cres # CZero
    /\ cres = cresSw


-----------------------------------------------------------------------------
(* two_channel.hpp.  Kinematic points are numbered 1..NS; the momenta and   *)
(* the Chew-Mandelstam functions at a point (square roots and logarithms of *)
(* s and the masses) are taken from a table of exact complex values.        *)

NS == 3

MaxJ == 1

MaxPar == 2

SVals == 1..NS

TVals == {0, 1}

Threads == {1, 2}

(* helicities(0) is combination 0 of the kinematics.                        *)
HelVals == {0, 1}

KinTable ==
    << [p |-> CInt(1), qf |-> CInt(1), q1 |-> CI,          G0 |-> <<-1, 1, 2>>, G1 |-> COne],
       [p |-> CInt(2), qf |-> CInt(1), q1 |-> CInt(1),     G0 |-> CI,           G1 |-> <<1, 1, 2>>],
       [p |-> CInt(1), qf |-> CInt(2), q1 |-> <<1, 0, 2>>, G0 |-> <<1, 1, 1>>,  G1 |-> <<0, -1, 1>>],
       [p |-> CInt(3), qf |-> CInt(1), q1 |-> CInt(2),     G0 |-> <<-1, 2, 3>>, G1 |-> <<1, 0, 2>>],
       [p |-> CInt(1), qf |-> CI,      q1 |-> <<0, 2, 1>>, G0 |-> <<1, 0, 3>>,  G1 |-> CInt(-1)] >>

(* _kinematics->initial_momentum(s), _kinematics->final_momentum(s)         *)
initial_momentum(s) == KinTable[s].p

final_momentum(s) == KinTable[s].qf

(* csqrt(Kallen(_s, _m1*_m1, _m2*_m2)) / csqrt(4.*_s)                        *)
second_momentum(s) == KinTable[s].q1

(* G(m1, m2): reads the field _s; channel 0 is G(_mX, _mR), channel 1 is    *)
(* G(_m1, _m2).                                                             *)
G(fs, ch) == IF ch = 0 THEN KinTable[fs].G0 ELSE KinTable[fs].G1

(* cos(_theta) as store() leaves it for (s, t): forward, sideways or        *)
(* backward scattering.                                                     *)
CosTheta(s, t) == CInt(((s + 2 * t) % 3) - 1)

RECURSIVE legendre(_, _)
legendre(n, x) ==
    IF n = 0 THEN COne
    ELSE IF n = 1 THEN x
    ELSE CDiv(CSub(CMul(CInt(2 * n - 1), CMul(x, legendre(n - 1, x))),
                   CMul(CInt(n - 1), legendre(n - 2, x))),
              CInt(n))

(* pq(i) and q2(i, j) read the field _q (and _s).                           *)
pq(o, i) == CMul(initial_momentum(o.s), o.q[i + 1])

q2(o, i, j) == CMul(o.q[i + 1], o.q[j + 1])

(* The statements of evaluate(), each on the object o.                      *)
StMomenta(o) == [o EXCEPT !.q = <<final_momentum(o.s), second_momentum(o.s)>>]

StLoopsCached(o) ==
    IF o.G = <<CZero, CZero>> THEN [o EXCEPT !.G = <<G(o.s, 0), G(o.s, 1)>>] ELSE o

StLoops(o) == [o EXCEPT !.G = <<G(o.s, 0), G(o.s, 1)>>]

StProduction(o) ==
    [o EXCEPT !.B = <<CMul(CPow(pq(o, 0), o.J), CInt(o.par.b0)),
                      CMul(CPow(pq(o, 1), o.J), CInt(o.par.b1))>>]

StKMatrix(o) ==
    [o EXCEPT !.K00 = CMul(CPow(q2(o, 0, 0), o.J), CInt(o.par.a00)),
              !.K01 = CMul(CPow(q2(o, 0, 1), o.J), CInt(o.par.a01)),
              !.K11 = CMul(CPow(q2(o, 1, 1), o.J), CInt(o.par.a11))]

StDenominatorUncoupled(o) ==
    [o EXCEPT !.D = CMul(CSub(COne, CMul(o.G[1], o.K00)),
                         CSub(COne, CMul(o.G[2], o.K11)))]

StDenominator(o) ==
    [o EXCEPT !.D = CSub(CMul(CSub(COne, CMul(o.G[1], o.K00)),
                              CSub(COne, CMul(o.G[2], o.K11))),
                         CMul(CMul(o.G[1], o.G[2]), CMul(o.K01, o.K01)))]

StDeterminant(o) ==
    [o EXCEPT !.delK = CSub(CMul(o.K00, o.K11), CMul(o.K01, o.K01))]

StNumeratorsNoDet(o) ==
    [o EXCEPT !.A00 = CDiv(o.K00, o.D),
              !.A01 = CDiv(o.K01, o.D)]

StNumerators(o) ==
    [o EXCEPT !.A00 = CDiv(CSub(o.K00, CMul(o.G[2], o.delK)), o.D),
              !.A01 = CDiv(o.K01, o.D)]

StResult(o) ==
    CAdd(CMul(o.B[1], CAdd(COne, CMul(o.G[1], o.A00))),
         CMul(CMul(o.B[2], o.G[2]), o.A01))

(* The value of (2*_J+1) * legendre(_J, cos(_theta)); helicity_amplitude    *)
(* multiplies it by sqrt(2), so amplitudes are in units of sqrt(2).         *)
LegendreFactor(o) == CMul(CInt(2 * o.J + 1), legendre(o.J, o.theta))

ParSets ==
    [a00 : 0..MaxPar, a01 : {0, 1}, a11 : 0..MaxPar, b0 : {1, 2}, b1 : {0, 1}]

SampleParSets ==
    { [a00 |-> 1, a01 |-> 1, a11 |-> 2, b0 |-> 1, b1 |-> 1],
      [a00 |-> 2, a01 |-> 0, a11 |-> 1, b0 |-> 2, b1 |-> 1] }

(* A two_channel object after construction: parameters and J set, every     *)
(* complex scratch field value-initialised to 0.                            *)
NewTwoChannel(par, J) ==
    [par |-> par, J |-> J, s |-> 1, t |-> 0, theta |-> COne, hel |-> 0,
     q |-> <<CZero, CZero>>, G |-> <<CZero, CZero>>, B |-> <<CZero, CZero>>,
     K00 |-> CZero, K01 |-> CZero, K11 |-> CZero,
     D |-> CZero, delK |-> CZero, A00 |-> CZero, A01 |-> CZero]

NoArg == [hel |-> 0, s |-> 1, t |-> 0]

TwoChannelIdle ==
    /\ tpc = [t \in Threads |-> "idle"]
    /\ targ = [t \in Threads |-> NoArg]
    /\ tleg = [t \in Threads |-> CZero]
    /\ tlegd = [t \in Threads |-> FALSE]
    /\ tev = [t \in Threads |-> CZero]
    /\ tret = [t \in Threads |-> CZero]
    /\ tprev = 0

TwoChannelInit ==
    /\ \E par \in ParSets, J \in 0..MaxJ : tc = NewTwoChannel(par, J)
    /\ TwoChannelIdle

TwoChannelParInit ==
    /\ \E par \in SampleParSets, J \in 0..MaxJ : tc = NewTwoChannel(par, J)
    /\ TwoChannelIdle

HACallStoresFirst(c) ==
    /\ tpc[c] = "idle"
    /\ \E hel \in HelVals, s \in SVals, t \in TVals :
          /\ targ' = [targ EXCEPT ![c] = [hel |-> hel, s |-> s, t |-> t]]
          /\ tpc' = [tpc EXCEPT ![c] = IF hel # 0 THEN "done" ELSE "store"]
          /\ tc' = [tc EXCEPT !.hel = hel, !.s = s, !.t = t, !.theta = CosTheta(s, t)]
    /\ tret' = [tret EXCEPT ![c] = CZero]
    /\ tev' = [tev EXCEPT ![c] = CZero]
    /\ tleg' = [tleg EXCEPT ![c] = CZero]
    /\ tlegd' = [tlegd EXCEPT ![c] = FALSE]
    /\ UNCHANGED tprev
    /\ UNCHANGED notTwoChannel

(* helicity_amplitude(helicities, s, t) is entered by caller c; any other   *)
(* combination than helicities(0) returns 0 at once.                        *)
HACall(c) ==
    /\ tpc[c] = "idle"
    /\ \E hel \in HelVals, s \in SVals, t \in TVals :
          /\ targ' = [targ EXCEPT ![c] = [hel |-> hel, s |-> s, t |-> t]]
          /\ tpc' = [tpc EXCEPT ![c] = IF hel # 0 THEN "done" ELSE "store"]
    /\ tret' = [tret EXCEPT ![c] = CZero]
    /\ tev' = [tev EXCEPT ![c] = CZero]
    /\ tleg' = [tleg EXCEPT ![c] = CZero]
    /\ tlegd' = [tlegd EXCEPT ![c] = FALSE]
    /\ UNCHANGED <<tc, tprev>>
    /\ UNCHANGED notTwoChannel

(* store(helicities, s, t)                                                  *)
HAStore(c) ==
    /\ tpc[c] = "store"
    /\ tc' = [tc EXCEPT !.hel = targ[c].hel, !.s = targ[c].s, !.t = targ[c].t,
                        !.theta = CosTheta(targ[c].s, targ[c].t)]
    /\ tpc' = [tpc EXCEPT ![c] = "momenta"]
    /\ UNCHANGED <<targ, tleg, tlegd, tev, tret, tprev>>
    /\ UNCHANGED notTwoChannel

(* The operands of the product in the return statement are evaluated in an  *)
(* order the compiler picks: legendre(_J, cos(_theta)) before evaluate() ... *)
HALegendreFirst(c) ==
    /\ tpc[c] = "momenta"
    /\ ~tlegd[c]
    /\ tleg' = [tleg EXCEPT ![c] = LegendreFactor(tc)]
    /\ tlegd' = [tlegd EXCEPT ![c] = TRUE]
    /\ UNCHANGED <<tc, tpc, targ, tev, tret, tprev>>
    /\ UNCHANGED notTwoChannel

EvStep(c, from, to, o) ==
    /\ tpc[c] = from
    /\ tc' = o
    /\ tpc' = [tpc EXCEPT ![c] = to]
    /\ UNCHANGED <<targ, tleg, tlegd, tev, tret, tprev>>
    /\ UNCHANGED notTwoChannel

EvMomenta(c) == EvStep(c, "momenta", "loops", StMomenta(tc))

EvLoops(c) == EvStep(c, "loops", "production", StLoops(tc))

EvProduction(c) == EvStep(c, "production", "kmatrix", StProduction(tc))

EvKMatrix(c) == EvStep(c, "kmatrix", "denominator", StKMatrix(tc))

EvDenominator(c) == EvStep(c, "denominator", "determinant", StDenominator(tc))

EvDeterminant(c) == EvStep(c, "determinant", "numerators", StDeterminant(tc))

EvNumerators(c) == EvStep(c, "numerators", "result", StNumerators(tc))

(* return _B[0] * (1 + _G[0]*_A00) + _B[1]*_G[1]*_A01;                       *)
EvReturn(c) ==
    /\ tpc[c] = "result"
    /\ tev' = [tev EXCEPT ![c] = StResult(tc)]
    /\ tpc' = [tpc EXCEPT ![c] = "product"]
    /\ UNCHANGED <<tc, targ, tleg, tlegd, tret, tprev>>
    /\ UNCHANGED notTwoChannel

(* ... or after it; then the product is returned.                           *)
HAReturn(c) ==
    /\ tpc[c] = "product"
    /\ LET leg == IF tlegd[c] THEN tleg[c] ELSE LegendreFactor(tc)
       IN  /\ tleg' = [tleg EXCEPT ![c] = leg]
           /\ tret' = [tret EXCEPT ![c] = CMul(leg, tev[c])]
    /\ tlegd' = [tlegd EXCEPT ![c] = TRUE]
    /\ tpc' = [tpc EXCEPT ![c] = "done"]
    /\ UNCHANGED <<tc, targ, tev, tprev>>
    /\ UNCHANGED notTwoChannel

(* The caller takes the value; the object stays as the call left it.        *)
HADone(c) ==
    /\ tpc[c] = "done"
    /\ tpc' = [tpc EXCEPT ![c] = "idle"]
    /\ targ' = [targ EXCEPT ![c] = NoArg]
    /\ tleg' = [tleg EXCEPT ![c] = CZero]
    /\ tlegd' = [tlegd EXCEPT ![c] = FALSE]
    /\ tev' = [tev EXCEPT ![c] = CZero]
    /\ tret' = [tret EXCEPT ![c] = CZero]
    /\ tprev' = IF targ[c].hel = 0 THEN targ[c].s ELSE tprev
    /\ UNCHANGED tc
    /\ UNCHANGED notTwoChannel

(* One call of helicity_amplitude by caller c, statement by statement.      *)
TwoChannelCallStep(c) ==
    \/ HACall(c)
    \/ HAStore(c)
    \/ HALegendreFirst(c)
    \/ EvMomenta(c)
    \/ EvLoops(c)
    \/ EvProduction(c)
    \/ EvKMatrix(c)
    \/ EvDenominator(c)
    \/ EvDeterminant(c)
    \/ EvNumerators(c)
    \/ EvReturn(c)
    \/ HAReturn(c)

TwoChannelStep(c) == TwoChannelCallStep(c) \/ HADone(c)


(* evaluate() and helicity_amplitude() run alone on a freshly constructed   *)
(* object.                                                                  *)
EvaluateAlone(par, J, s) ==
    LET o0 == [NewTwoChannel(par, J) EXCEPT !.s = s]
        o1 == StMomenta(o0)
        o2 == StLoops(o1)
        o3 == StProduction(o2)
        o4 == StKMatrix(o3)
        o5 == StDenominator(o4)
        o6 == StDeterminant(o5)
        o7 == StNumerators(o6)
    IN  StResult(o7)

HelicityAlone(par, J, a) ==
    IF a.hel # 0 THEN CZero
    ELSE CMul(CMul(CInt(2 * J + 1), legendre(J, CosTheta(a.s, a.t))),
              EvaluateAlone(par, J, a.s))

-----------------------------------------------------------------------------
(* triple_regge (initialize, set_sigma_total, d3sigma_d3p) and the flag     *)
(* _useTX of inclusive_production.                                          *)

NCells == 2

Cells == 1..NCells

(* A total-cross-section sub-model, by the constructor call that made it.   *)
PDG(iso, file) == [cls |-> "PDG_parameterization", iso |-> iso, res |-> file]

JPAC(iso, res) == [cls |-> "JPAC_parameterization", iso |-> iso, res |-> res]

ZeroXsection == [cls |-> "zero_xsection", iso |-> 0, res |-> FALSE]

NoModel == [cls |-> "none", iso |-> 0, res |-> FALSE]

NamedOptions ==
    {"PDG_pipp_onlyRegge", "PDG_pimp_onlyRegge", "PDG_pipp_withResonances",
     "PDG_pimp_withResonances", "JPAC_pipp_onlyRegge", "JPAC_pimp_onlyRegge",
     "JPAC_pipp_withResonances", "JPAC_pimp_withResonances"}

(* A sigma_option is an enum: a value outside the named ones can be passed. *)
sigma_option == NamedOptions \cup {"unnamed"}

AmplitudeNames == {"pseudoscalar_exchange", "vector_exchange", "Pseudoscalar_Exchange"}

(* The switch of set_sigma_total: the object that new makes for opt.        *)
sigma_switch_fallthrough(opt) ==
    CASE opt = "PDG_pipp_onlyRegge" -> PDG(1, FALSE)
      [] opt = "PDG_pimp_onlyRegge" -> PDG(-1, FALSE)
      [] opt = "PDG_pipp_withResonances" -> PDG(1, TRUE)
      [] opt = "PDG_pimp_withResonances" -> PDG(-1, TRUE)
      [] opt = "JPAC_pipp_onlyRegge" -> JPAC(1, FALSE)
      [] opt = "JPAC_pimp_onlyRegge" -> JPAC(-1, FALSE)
      [] opt = "JPAC_pipp_withResonances" -> JPAC(-1, TRUE)
      [] opt = "JPAC_pimp_withResonances" -> JPAC(-1, TRUE)
      [] OTHER -> ZeroXsection

sigma_switch(opt) ==
    CASE opt = "PDG_pipp_onlyRegge" -> PDG(1, FALSE)
      [] opt = "PDG_pimp_onlyRegge" -> PDG(-1, FALSE)
      [] opt = "PDG_pipp_withResonances" -> PDG(1, TRUE)
      [] opt = "PDG_pimp_withResonances" -> PDG(-1, TRUE)
      [] opt = "JPAC_pipp_onlyRegge" -> JPAC(1, FALSE)
      [] opt = "JPAC_pimp_onlyRegge" -> JPAC(-1, FALSE)
      [] opt = "JPAC_pipp_withResonances" -> JPAC(1, TRUE)
      [] opt = "JPAC_pimp_withResonances" -> JPAC(-1, TRUE)
      [] OTHER -> ZeroXsection

(* new and delete on the heap h of sub-models.  delete of a pointer that    *)
(* refers to no live object is an error (a double delete).                  *)
HeapNew(h, cell, model) == [h EXCEPT ![cell] = [st |-> "live", model |-> model]]

HeapDelete(h, cell) == [h EXCEPT ![cell] = [st |-> "free", model |-> NoModel]]

IsLive(h, cell) == cell \in Cells /\ h[cell].st = "live"

FreeCells(h) == {c \in Cells : h[c].st # "live"}

initialize_any_name(o, h, amp_name, cell) ==
    [o |-> [o EXCEPT !.init = TRUE, !.coupling = "pion", !.sigma_tot = cell],
     h |-> HeapNew(h, cell, PDG(-1, FALSE))]

(* initialize(amp_name), with the sub-model placed in cell.                 *)
initialize(o, h, amp_name, cell) ==
    IF amp_name = "pseudoscalar_exchange"
    THEN [o |-> [o EXCEPT !.init = TRUE, !.coupling = "pion", !.sigma_tot = cell],
          h |-> HeapNew(h, cell, PDG(-1, FALSE))]
    ELSE [o |-> [o EXCEPT !.init = TRUE, !.coupling = "zero", !.sigma_tot = cell],
          h |-> HeapNew(h, cell, ZeroXsection)]

(* set_sigma_total(opt): delete _sigma_tot, then _sigma_tot = new ...       *)
(* placed in a cell that is free once the old object is released.           *)
set_sigma_total_leaks(o, h, opt, cell) ==
    LET at == IF IsLive(h, cell) THEN CHOOSE c \in Cells : ~IsLive(h, c) ELSE cell
    IN  [o   |-> [o EXCEPT !.sigma_tot = at],
         h   |-> HeapNew(h, at, sigma_switch(opt)),
         err |-> "none"]

set_sigma_total_no_default(o, h, opt, cell) ==
    LET h1 == HeapDelete(h, o.sigma_tot)
    IN  IF opt \in NamedOptions
        THEN [o   |-> [o EXCEPT !.sigma_tot = cell],
              h   |-> HeapNew(h1, cell, sigma_switch(opt)),
              err |-> IF IsLive(h, o.sigma_tot) THEN "none" ELSE "double_delete"]
        ELSE [o   |-> o,
              h   |-> h1,
              err |-> IF IsLive(h, o.sigma_tot) THEN "none" ELSE "double_delete"]

set_sigma_total(o, h, opt, cell) ==
    LET h1 == HeapDelete(h, o.sigma_tot)
    IN  [o   |-> [o EXCEPT !.sigma_tot = cell],
         h   |-> HeapNew(h1, cell, sigma_switch(opt)),
         err |-> IF IsLive(h, o.sigma_tot) THEN "none" ELSE "double_delete"]

(* Fixed-point units: mm (x or M2) in 1/MMUnit, slopes and logarithms in    *)
(* thousandths.                                                             *)
MMUnit == 10000

(* 0.001, in units of 1/MMUnit                                              *)
XEndpointBand == 10

(* The exclusive amplitude of b1.cpp: form-factor slope b = 1/0.9^2,        *)
(* trajectory slope 0.7, and log(-alphaPrime*t) at the values of t used.    *)
ReggeSetup == [b |-> 1235, alphaPrime |-> 700]

TRTVals == {-1, -30}

LogMinusAlphaPrimeT(t) == IF t = -1 THEN -357 ELSE 3045

TRSVals == {4, 9}

MMVals == {9990, 9995, 10000, 40000}

(* _coupling(t): (_g / mX) * (t - mX2) in units of _g/mX with mX2 = 1, or 0 *)
coupling(o, t) == IF o.coupling = "pion" THEN t - 1 ELSE 0

ZeroReturn(why) ==
    [zero |-> TRUE, guard |-> why, sigma |-> [model |-> NoModel, at |-> <<0, 1>>],
     coupling2 |-> 0, ff |-> 0, prop |-> <<"none", 0>>, s_piece |-> <<0, 1>>]

(* d3sigma_d3p(s, t, mm) after "_kinematics->_s = s": the value returned,   *)
(* the collaborators evaluated on the way, and a use of a released          *)
(* sub-model.  The value is kept as its factors: sigma_tot (which model,    *)
(* evaluated where), coupling squared, the argument t of the form factor,   *)
(* the propagator (kind and t) and s_piece (a fraction).                    *)
(* (_useTX) ? (s_piece = (1. - mm)) : (s_piece = mm / s), as a fraction    *)
(* <<numerator, denominator>>.                                              *)
phase_space_piece(o, s, mm) ==
    IF o.useTX THEN <<MMUnit - mm, MMUnit>> ELSE <<mm, s * MMUnit>>

sigma_argument_always_mm(o, s, mm) == <<mm, MMUnit>>

(* The argument of _sigma_tot->eval: s * (1. - mm) or mm, as a fraction.    *)
sigma_argument(o, s, mm) ==
    IF o.useTX THEN <<s * (MMUnit - mm), MMUnit>> ELSE <<mm, MMUnit>>

regge_guard_reversed(t) ==
    (ReggeSetup.b + ReggeSetup.alphaPrime) * 1000
        - ReggeSetup.alphaPrime * LogMinusAlphaPrimeT(t) > 0

(* _b + alphaPrime - alphaPrime * log(- alphaPrime * t) < 0., in millionths *)
regge_guard(t) ==
    (ReggeSetup.b + ReggeSetup.alphaPrime) * 1000
        - ReggeSetup.alphaPrime * LogMinusAlphaPrimeT(t) < 0

d3sigma_after_guard(o, h, s, t, mm) ==
    LET s_piece == phase_space_piece(o, s, mm)
        first == {"coupling", "formfactor"}
        reggeGuard == regge_guard(t)
        at == sigma_argument(o, s, mm)
        live == IsLive(h, o.sigma_tot)
    IN  IF o.useRegge /\ reggeGuard
        THEN [ret |-> ZeroReturn("regge"), called |-> first \cup {"trajectory"},
              err |-> "none"]
        ELSE [ret |-> [zero |-> FALSE, guard |-> "none",
                       sigma |-> [model |-> IF live THEN h[o.sigma_tot].model ELSE NoModel,
                                  at |-> at],
                       coupling2 |-> coupling(o, t) * coupling(o, t),
                       ff |-> t,
                       prop |-> <<IF o.useRegge THEN "regge" ELSE "pole", t>>,
                       s_piece |-> s_piece],
              called |-> first \cup (IF o.useRegge THEN {"trajectory", "signature", "cgamma"}
                                     ELSE {}) \cup {"sigma_tot"},
              err |-> IF live THEN "none" ELSE "use_after_release"]

d3sigma_d3p_guard_any_mode(o, h, s, t, mm) ==
    IF Abs(mm - MMUnit) < XEndpointBand
    THEN [ret |-> ZeroReturn("x"), called |-> {}, err |-> "none"]
    ELSE d3sigma_after_guard(o, h, s, t, mm)

d3sigma_d3p(o, h, s, t, mm) ==
    IF o.useTX /\ Abs(mm - MMUnit) < XEndpointBand
    THEN [ret |-> ZeroReturn("x"), called |-> {}, err |-> "none"]
    ELSE d3sigma_after_guard(o, h, s, t, mm)

NoCall == [has |-> FALSE, s |-> 0, t |-> 0, mm |-> 0, useTX |-> FALSE, sel |-> "none"]

(* A triple_regge object whose constructor has not yet called initialize:   *)
(* the exchange is a trajectory (Regge mode) or a fixed mass and spin.      *)
ReggeInit ==
    /\ \E regge \in BOOLEAN :
          tr = [init |-> FALSE, name |-> "none", useTX |-> FALSE, useRegge |-> regge,
                coupling |-> "none", sigma_tot |-> 0]
    /\ heap = [c \in Cells |-> [st |-> "free", model |-> NoModel]]
    /\ kin_s = 0
    /\ trRet = ZeroReturn("none")
    /\ trCalled = {}
    /\ trSel = "none"
    /\ trCall = NoCall
    /\ trErr = "none"

Initialize ==
    /\ ~tr.init
    /\ \E name \in AmplitudeNames, cell \in FreeCells(heap) :
          LET r == initialize(tr, heap, name, cell)
          IN  /\ tr' = [r.o EXCEPT !.name = name]
              /\ heap' = r.h
              /\ trSel' = "initialize"
    /\ UNCHANGED <<kin_s, trRet, trCalled, trCall, trErr>>
    /\ UNCHANGED notRegge

SetSigmaTotal ==
    /\ tr.init
    /\ \E opt \in sigma_option :
          \E cell \in FreeCells(HeapDelete(heap, tr.sigma_tot)) :
              LET r == set_sigma_total(tr, heap, opt, cell)
              IN  /\ tr' = r.o
                  /\ heap' = r.h
                  /\ trErr' = IF r.err # "none" THEN r.err ELSE trErr
                  /\ trSel' = opt
    /\ UNCHANGED <<kin_s, trRet, trCalled, trCall>>
    /\ UNCHANGED notRegge

(* inclusive_production::set_TX                                             *)
SetTX ==
    /\ \E opt \in BOOLEAN : tr' = [tr EXCEPT !.useTX = opt]
    /\ UNCHANGED <<heap, kin_s, trRet, trCalled, trSel, trCall, trErr>>
    /\ UNCHANGED notRegge

D3Sigma ==
    /\ tr.init
    /\ \E s \in TRSVals, t \in TRTVals, mm \in MMVals :
          LET r == d3sigma_d3p(tr, heap, s, t, mm)
          IN  /\ kin_s' = s
              /\ trRet' = r.ret
              /\ trCalled' = r.called
              /\ trErr' = IF r.err # "none" THEN r.err ELSE trErr
              /\ trCall' = [has |-> TRUE, s |-> s, t |-> t, mm |-> mm,
                            useTX |-> tr.useTX, sel |-> trSel]
    /\ UNCHANGED <<tr, heap, trSel>>
    /\ UNCHANGED notRegge

ReggeNext == Initialize \/ SetSigmaTotal \/ SetTX \/ D3Sigma

-----------------------------------------------------------------------------
(* Setting up amplitudes: the baryon_resonance constructor and the          *)
(* parameter setters of baryon_resonance, vector_meson_exchange and         *)
(* two_channel.                                                             *)

MaxTwiceSpin == 6
MaxParity == 2
MaxVecLen == 6

JVals == (0 - MaxTwiceSpin)..MaxTwiceSpin
PVals == (0 - MaxParity)..MaxParity

(* A parameter vector of n elements; element i holds 10 + i, so that a      *)
(* field shows which element it was given.                                  *)
ParamVector(n) == [i \in 1..n |-> 10 + i]

(* std::vector::operator[] past the end is undefined: the read yields some  *)
(* value or the process dies.                                               *)
OutOfRange == {"garbage", "crash"}
Garbage == 99

(* params[i - 1]                                                            *)
At(params, i) == IF i <= Len(params) THEN params[i] ELSE Garbage

(* How many of the n assignments "field = params[k]" are carried out.       *)
Assigned(params, n, oob) ==
    IF oob = "crash" /\ Len(params) < n THEN Len(params) ELSE n

NoSet == [len |-> 0 - 1, before |-> <<>>]

(* baryon_resonance::baryon_resonance(xkinem, j, p, mass, width)            *)
baryon_resonance(j, p) ==
    LET o == [state |-> "constructed", j |-> j, p |-> p, nParams |-> 2,
              lmin |-> 0 - 1, pt |-> <<0, 0>>, xBR |-> 0, photoR |-> 0,
              call |-> NoSet]
        quit == [o EXCEPT !.state = "exited"]
    IN  IF Abs(p) # 1 THEN quit
        ELSE CASE p * j = 1     -> [o EXCEPT !.lmin = 0, !.pt = <<2, 3>>]
               [] p * j = 0 - 1 -> [o EXCEPT !.lmin = 1, !.pt = <<3, 5>>]
               [] p * j = 3     -> [o EXCEPT !.lmin = 1, !.pt = <<3, 5>>]
               [] p * j = 0 - 3 -> [o EXCEPT !.lmin = 0, !.pt = <<2, 3>>]
               [] p * j = 5     -> [o EXCEPT !.lmin = 1, !.pt = <<3, 5>>]
               [] p * j = 0 - 5 -> [o EXCEPT !.lmin = 2, !.pt = <<1, 3>>]
               [] OTHER         -> quit

(* amplitude::check_nParams: a vector whose size is not the number          *)
(* announced by set_nParams is fatal.                                       *)
check_nParams(o, params) == Len(params) = o.nParams

(* baryon_resonance::set_params                                             *)
baryon_resonance_set_params(o, params) ==
    LET rec == [len |-> Len(params), before |-> <<o.xBR, o.photoR>>]
    IN  IF ~check_nParams(o, params)
        THEN [o |-> [o EXCEPT !.call = rec], proc |-> "exited"]
        ELSE [o |-> [o EXCEPT !.xBR = params[1], !.photoR = params[2], !.call = rec],
              proc |-> "running"]

(* vector_meson_exchange::set_params                                        *)
vector_meson_exchange_set_params(o, params, oob) ==
    LET n == Assigned(params, 3, oob)
        rec == [len |-> Len(params), before |-> <<o.gGamma, o.gV, o.gT>>]
    IN  [o |-> [o EXCEPT !.gGamma = IF n >= 1 THEN At(params, 1) ELSE @,
                         !.gV     = IF n >= 2 THEN At(params, 2) ELSE @,
                         !.gT     = IF n >= 3 THEN At(params, 3) ELSE @,
                         !.call   = rec],
         proc |-> IF n < 3 THEN "crashed" ELSE "running"]

(* two_channel::allocate_parameters                                         *)
allocate_parameters(o, pars, oob) ==
    LET n == Assigned(pars, 5, oob)
        rec == [len |-> Len(pars), before |-> <<o.a00, o.a01, o.a11, o.b0, o.b1>>]
    IN  [o |-> [o EXCEPT !.a00 = IF n >= 1 THEN At(pars, 1) ELSE @,
                         !.a01 = IF n >= 2 THEN At(pars, 2) ELSE @,
                         !.a11 = IF n >= 3 THEN At(pars, 3) ELSE @,
                         !.b0  = IF n >= 4 THEN At(pars, 4) ELSE @,
                         !.b1  = IF n >= 5 THEN At(pars, 5) ELSE @,
                         !.call = rec],
         proc |-> IF n < 5 THEN "crashed" ELSE "running"]

SetupInit ==
    /\ br = [state |-> "none", j |-> 0, p |-> 0, nParams |-> 0,
             lmin |-> 0 - 1, pt |-> <<0, 0>>, xBR |-> 0, photoR |-> 0,
             call |-> NoSet]
    /\ vme = [gGamma |-> 0, gV |-> 0, gT |-> 0, call |-> NoSet]
    /\ tcs = [a00 |-> 0, a01 |-> 0, a11 |-> 0, b0 |-> 0, b1 |-> 0, call |-> NoSet]
    /\ setupProc = "running"

Construct ==
    /\ setupProc = "running" /\ br.state = "none"
    /\ \E j \in JVals, p \in PVals :
        /\ br' = baryon_resonance(j, p)
        /\ setupProc' = IF br'.state = "exited" THEN "exited" ELSE "running"
    /\ UNCHANGED <<vme, tcs>>
    /\ UNCHANGED notSetup

ResonanceSetParams ==
    /\ setupProc = "running" /\ br.state = "constructed"
    /\ \E n \in 0..MaxVecLen :
        LET r == baryon_resonance_set_params(br, ParamVector(n))
        IN  br' = r.o /\ setupProc' = r.proc
    /\ UNCHANGED <<vme, tcs>>
    /\ UNCHANGED notSetup

ExchangeSetParams ==
    /\ setupProc = "running"
    /\ \E n \in 0..MaxVecLen, oob \in OutOfRange :
        LET r == vector_meson_exchange_set_params(vme, ParamVector(n), oob)
        IN  vme' = r.o /\ setupProc' = r.proc
    /\ UNCHANGED <<br, tcs>>
    /\ UNCHANGED notSetup

AllocateParameters ==
    /\ setupProc = "running"
    /\ \E n \in 0..MaxVecLen, oob \in OutOfRange :
        LET r == allocate_parameters(tcs, ParamVector(n), oob)
        IN  tcs' = r.o /\ setupProc' = r.proc
    /\ UNCHANGED <<br, vme>>
    /\ UNCHANGED notSetup

SetupNext ==
    \/ Construct
    \/ ResonanceSetParams
    \/ ExchangeSetParams
    \/ AllocateParameters

-----------------------------------------------------------------------------
(* inclusive_production and the inclusive_kinematics object it creates and  *)
(* deletes.  The class declares no copy constructor and no assignment, so   *)
(* a copy is the implicit member-wise one.                                  *)

NObjects == 3

NKin == 3

Objects == 1..NObjects

KinCells == 1..NKin

NoObject == [st |-> "none", kin |-> 0]

(* inclusive_production(produced_mass, amp_id): _kinematics = new ... at    *)
(* the location cell.                                                       *)
inclusive_production(objs, h, o, cell) ==
    [objs |-> [objs EXCEPT ![o] = [st |-> "alive", kin |-> cell]],
     h    |-> [h EXCEPT ![cell] = "live"]]

(* The implicit copy constructor: every member is copied, the pointer       *)
(* _kinematics included.                                                    *)
inclusive_production_copy(objs, h, o, from) ==
    [objs |-> [objs EXCEPT ![o] = [st |-> "alive", kin |-> objs[from].kin]],
     h    |-> h]

(* ~inclusive_production(): delete _kinematics.  Deleting an object that    *)
(* was deleted already is undefined; the run is over then.                  *)
inclusive_production_dtor(objs, h, o) ==
    [objs |-> [objs EXCEPT ![o] = [st |-> "destroyed", kin |-> 0]],
     h    |-> [h EXCEPT ![objs[o].kin] = "free"],
     err  |-> IF h[objs[o].kin] = "live" THEN "none" ELSE "double_delete"]

OwnerInit ==
    /\ ipObj = [o \in Objects |-> NoObject]
    /\ kinHeap = [c \in KinCells |-> "free"]
    /\ ipErr = "none"

ConstructProduction ==
    /\ ipErr = "none"
    /\ \E o \in Objects, cell \in KinCells :
          /\ ipObj[o].st # "alive"
          /\ kinHeap[cell] = "free"
          /\ LET r == inclusive_production(ipObj, kinHeap, o, cell)
             IN  ipObj' = r.objs /\ kinHeap' = r.h
    /\ UNCHANGED ipErr
    /\ UNCHANGED notOwner

CopyProduction ==
    /\ ipErr = "none"
    /\ \E o \in Objects, from \in Objects :
          /\ ipObj[o].st # "alive"
          /\ ipObj[from].st = "alive"
          /\ LET r == inclusive_production_copy(ipObj, kinHeap, o, from)
             IN  ipObj' = r.objs /\ kinHeap' = r.h
    /\ UNCHANGED ipErr
    /\ UNCHANGED notOwner

DestroyProduction ==
    /\ ipErr = "none"
    /\ \E o \in Objects :
          /\ ipObj[o].st = "alive"
          /\ LET r == inclusive_production_dtor(ipObj, kinHeap, o)
             IN  ipObj' = r.objs /\ kinHeap' = r.h /\ ipErr' = r.err
    /\ UNCHANGED notOwner

(* A member function of an object reads _kinematics (d3sigma_d3p and the    *)
(* integrated cross-sections do).                                           *)
UseKinematics ==
    /\ ipErr = "none"
    /\ \E o \in Objects :
          /\ ipObj[o].st = "alive"
          /\ kinHeap[ipObj[o].kin] # "live"
          /\ ipErr' = "use_after_delete"
    /\ UNCHANGED <<ipObj, kinHeap>>
    /\ UNCHANGED notOwner

OwnerNext ==
    \/ ConstructProduction
    \/ CopyProduction
    \/ DestroyProduction
    \/ UseKinematics

-----------------------------------------------------------------------------
(* The specifications.  In each one the variables of the other subsystems   *)
(* keep the values they are given here.                                     *)

ContractFrozen ==
    /\ left = Plain("complex", CZero)
    /\ right = Plain("complex", CZero)
    /\ cres = CZero
    /\ cresSw = CZero
    /\ cdone = FALSE
    /\ cdoneSw = FALSE
    /\ ctrace = 0

TwoChannelFrozen ==
    /\ tc = NewTwoChannel([a00 |-> 0, a01 |-> 0, a11 |-> 0, b0 |-> 1, b1 |-> 0], 0)
    /\ TwoChannelIdle

ReggeFrozen ==
    /\ tr = 0 /\ heap = 0 /\ kin_s = 0 /\ trRet = 0
    /\ trCalled = {} /\ trSel = 0 /\ trCall = 0 /\ trErr = 0

SetupFrozen ==
    /\ br = 0 /\ vme = 0 /\ tcs = 0 /\ setupProc = 0

OwnerFrozen ==
    /\ ipObj = 0 /\ kinHeap = 0 /\ ipErr = 0

InitContract == ContractInit /\ TwoChannelFrozen /\ ReggeFrozen /\ SetupFrozen /\ OwnerFrozen

SpecContract == InitContract /\ [][ContractNext]_vars

(* Calls of helicity_amplitude one after the other on one object.           *)
TwoChannelNext == \E c \in {1} : TwoChannelStep(c)

InitTwoChannel == TwoChannelInit /\ ContractFrozen /\ ReggeFrozen /\ SetupFrozen /\ OwnerFrozen

SpecTwoChannel == InitTwoChannel /\ [][TwoChannelNext]_vars

(* Two callers on the same object, one call each, their statements          *)
(* interleaved.                                                             *)
TwoChannelParNext == \E c \in Threads : TwoChannelCallStep(c)

InitTwoChannelPar == TwoChannelParInit /\ ContractFrozen /\ ReggeFrozen /\ SetupFrozen /\ OwnerFrozen

SpecTwoChannelPar == InitTwoChannelPar /\ [][TwoChannelParNext]_vars

InitRegge == ReggeInit /\ ContractFrozen /\ TwoChannelFrozen /\ SetupFrozen /\ OwnerFrozen

SpecRegge == InitRegge /\ [][ReggeNext]_vars

InitSetup == SetupInit /\ ContractFrozen /\ TwoChannelFrozen /\ ReggeFrozen /\ OwnerFrozen

SpecSetup == InitSetup /\ [][SetupNext]_vars

InitOwner ==
    OwnerInit /\ ContractFrozen /\ TwoChannelFrozen /\ ReggeFrozen /\ SetupFrozen

SpecOwner == InitOwner /\ [][OwnerNext]_vars

-----------------------------------------------------------------------------
(* Claims about two_channel.                                                *)

Evaluated(c) == tpc[c] \in {"product", "done"} /\ targ[c].hel = 0

C3_G0 == G(targ[1].s, 0)

C3_K00 ==
    CMul(CPow(CMul(final_momentum(targ[1].s), final_momentum(targ[1].s)), tc.J),
         CInt(tc.par.a00))

C3_B0 ==
    CMul(CPow(CMul(initial_momentum(targ[1].s), final_momentum(targ[1].s)), tc.J),
         CInt(tc.par.b0))

C3_SingleChannelA00 == CDiv(C3_K00, CSub(COne, CMul(C3_G0, C3_K00)))

C3_Decoupled ==
    /\ tc.A01 = CZero
    /\ tc.A00 = C3_SingleChannelA00
    /\ tev[1] = CMul(C3_B0, CAdd(COne, CMul(C3_G0, C3_SingleChannelA00)))

(* C3 as stated: with a01 = 0, for every s, a00, a11, b0, b1, evaluate()    *)
(* leaves A01 = 0 and A00 = K00/(1 - G0*K00) and returns                    *)
(* B0*(1 + G0*K00/(1 - G0*K00)).                                            *)
C3_DecoupledAlways ==
    (Evaluated(1) /\ tc.par.a01 = 0) => C3_Decoupled

(* C3 amended: the same, whenever the denominator D is not zero, that is    *)
(* G0*K00 # 1 and G1*K11 # 1.                                               *)
C3_DecoupledOffPole ==
    (Evaluated(1) /\ tc.par.a01 = 0 /\ tc.D # CZero) => C3_Decoupled

C3_Witness ==
    /\ Evaluated(1) /\ tc.par.a01 = 0 /\ tc.D # CZero
    /\ tc.par.a11 # 0 /\ tc.par.b1 # 0 /\ tc.par.a00 # 0 /\ tc.J = 1
    /\ tc.G[2] # CZero /\ tc.K11 # CZero
    /\ tev[1] # CZero /\ tc.A00 # CZero

(* C9: when two helicity_amplitude calls on the same object are interleaved *)
(* at any step, each returns the value it returns when run alone.           *)
C9_InterleavedAsAlone ==
    \A c \in Threads :
        tpc[c] = "done" => tret[c] = HelicityAlone(tc.par, tc.J, targ[c])

(* C10: after any sequence of earlier evaluations at other kinematic        *)
(* points, evaluate() returns for (s, parameters) the value it returns on   *)
(* a fresh object, and so does helicity_amplitude.                          *)
C10_HistoryIndependent ==
    /\ Evaluated(1) => tev[1] = EvaluateAlone(tc.par, tc.J, targ[1].s)
    /\ tpc[1] = "done" => tret[1] = HelicityAlone(tc.par, tc.J, targ[1])

C10_Witness ==
    /\ tpc[1] = "done" /\ targ[1].hel = 0
    /\ tev[1] # CZero /\ IsFinite(tev[1])
    /\ tc.par.a01 # 0
    /\ tc.J = 1
    /\ tprev \notin {0, targ[1].s}


-----------------------------------------------------------------------------
(* Claims about triple_regge.                                               *)

(* C4: in x-mode, d3sigma_d3p(s, t, m) with |m - 1| < 0.001 returns 0 for   *)
(* any s and t, in Regge and in fixed-spin mode, before any coupling, form  *)
(* factor, propagator or sub-model is evaluated; in missing-mass mode the   *)
(* guard is not triggered by any m.  (0.001 is 10 in units of 1/10000.)     *)
C4_EndpointGuard ==
    trCall.has =>
        /\ (trCall.useTX /\ Abs(trCall.mm - 10000) < 10) =>
                (trRet.zero /\ trRet.guard = "x" /\ trCalled = {})
        /\ ~trCall.useTX => (trRet.guard # "x" /\ "coupling" \in trCalled)

C4_Witness ==
    /\ trCall.has /\ trCall.useTX /\ trCall.mm = 9995 /\ tr.useRegge
    /\ trRet.zero /\ trCalled = {}
    /\ trCall.sel \in NamedOptions

LiveCells == {c \in Cells : heap[c].st = "live"}

(* C5: after initialize() and any sequence of set_sigma_total calls the     *)
(* model owns exactly one live sub-model: nothing is deleted twice, nothing *)
(* is left allocated without an owner, and _sigma_tot refers to the live    *)
(* instance.                                                                *)
C5_SingleOwner ==
    tr.init => (trErr = "none" /\ LiveCells = {tr.sigma_tot})

C5_Witness ==
    /\ tr.init /\ trCall.has
    /\ trCall.sel \in NamedOptions /\ trSel \in sigma_option /\ trSel # trCall.sel
    /\ LiveCells = {tr.sigma_tot}

(* The sub-model an option (or initialize) selects.                         *)
C6_SubModelOf(sel, name) ==
    CASE sel = "initialize" ->
            IF name = "pseudoscalar_exchange" THEN PDG(-1, FALSE) ELSE ZeroXsection
      [] sel = "PDG_pipp_onlyRegge" -> PDG(1, FALSE)
      [] sel = "PDG_pimp_onlyRegge" -> PDG(-1, FALSE)
      [] sel = "PDG_pipp_withResonances" -> PDG(1, TRUE)
      [] sel = "PDG_pimp_withResonances" -> PDG(-1, TRUE)
      [] sel = "JPAC_pipp_onlyRegge" -> JPAC(1, FALSE)
      [] sel = "JPAC_pimp_onlyRegge" -> JPAC(-1, FALSE)
      [] sel = "JPAC_pipp_withResonances" -> JPAC(1, TRUE)
      [] sel = "JPAC_pimp_withResonances" -> JPAC(-1, TRUE)
      [] OTHER -> ZeroXsection

(* The value of the last call on an object that was initialised and given   *)
(* at most the one option in force at the call.                             *)
C6_FreshValue ==
    LET o0 == [init |-> FALSE, name |-> "none", useTX |-> trCall.useTX,
               useRegge |-> tr.useRegge, coupling |-> "none", sigma_tot |-> 0]
        h0 == [c \in Cells |-> [st |-> "free", model |-> NoModel]]
        r1 == initialize(o0, h0, tr.name, 1)
        r2 == IF trCall.sel = "initialize" THEN r1
              ELSE set_sigma_total(r1.o, r1.h, trCall.sel, 1)
    IN  d3sigma_d3p(r2.o, r2.h, trCall.s, trCall.t, trCall.mm).ret

(* C6: a value returned by d3sigma_d3p uses the sub-model selected by the   *)
(* last option before that call alone, every other factor is what it is     *)
(* without any earlier swap, and values returned before a swap stay those   *)
(* of the sub-model in force at their call.                                 *)
C6_OnlySubsequent ==
    trCall.has =>
        /\ trRet = C6_FreshValue
        /\ ~trRet.zero => trRet.sigma.model = C6_SubModelOf(trCall.sel, tr.name)

C6_Witness ==
    /\ trCall.has /\ ~trRet.zero
    /\ trCall.sel = "JPAC_pimp_withResonances" /\ trSel = "PDG_pimp_onlyRegge"
    /\ trRet.sigma.model = JPAC(-1, TRUE)
    /\ heap[tr.sigma_tot].model = PDG(-1, FALSE)
    /\ tr.name = "pseudoscalar_exchange"


-----------------------------------------------------------------------------
(* Claims about the setup of amplitudes.                                    *)

(* C7: a baryon_resonance is constructed only for j in {1, 3, 5} and p in   *)
(* {+1, -1}; every other pair of integers, negative j included, ends in the *)
(* fatal exit and leaves no usable object.                                  *)
C7_OnlyListedPairs ==
    br.state # "none" =>
        IF br.j \in {1, 3, 5} /\ br.p \in {1, 0 - 1}
        THEN br.state = "constructed"
        ELSE br.state = "exited" /\ setupProc = "exited"

(* C8: a parameter vector whose length is not the expected one (2 for       *)
(* baryon_resonance::set_params, 3 for vector_meson_exchange::set_params,   *)
(* 5 for two_channel::allocate_parameters) is fatal and no parameter field  *)
(* is written.                                                              *)
C8_MismatchRejected ==
    /\ br.call.len \notin {0 - 1, 2} =>
            (setupProc = "exited" /\ <<br.xBR, br.photoR>> = br.call.before)
    /\ vme.call.len \notin {0 - 1, 3} =>
            (setupProc = "exited" /\ <<vme.gGamma, vme.gV, vme.gT>> = vme.call.before)
    /\ tcs.call.len \notin {0 - 1, 5} =>
            (setupProc = "exited"
                /\ <<tcs.a00, tcs.a01, tcs.a11, tcs.b0, tcs.b1>> = tcs.call.before)


-----------------------------------------------------------------------------
(* Further claims about two_channel.                                        *)

(* The amplitude of the claim, from the momenta p, q0, q1 and the loop      *)
(* functions G0, G1 at the point s.                                         *)
C11_Amplitude(par, J, s) ==
    LET p   == initial_momentum(s)
        q0  == final_momentum(s)
        q1  == second_momentum(s)
        G0  == G(s, 0)
        G1  == G(s, 1)
        K00 == CMul(CInt(par.a00), CPow(CMul(q0, q0), J))
        K01 == CMul(CInt(par.a01), CPow(CMul(q0, q1), J))
        K11 == CMul(CInt(par.a11), CPow(CMul(q1, q1), J))
        B0  == CMul(CInt(par.b0), CPow(CMul(p, q0), J))
        B1  == CMul(CInt(par.b1), CPow(CMul(p, q1), J))
        D   == CSub(CMul(CSub(COne, CMul(G0, K00)), CSub(COne, CMul(G1, K11))),
                    CMul(CMul(G0, G1), CMul(K01, K01)))
        detK == CSub(CMul(K00, K11), CMul(K01, K01))
        A00 == CDiv(CSub(K00, CMul(G1, detK)), D)
        A01 == CDiv(K01, D)
    IN  [D |-> D,
         value |-> CAdd(CMul(B0, CAdd(COne, CMul(G0, A00))), CMul(CMul(B1, G1), A01))]

(* C11: evaluate() returns B0*(1 + G0*A00) + B1*G1*A01 with D, detK, A00,   *)
(* A01, the K's and the B's as the claim defines them, and a zero D is not  *)
(* guarded: the division is carried out and the result is not finite.       *)
C11_KMatrixFormula ==
    Evaluated(1) =>
        LET a == C11_Amplitude(tc.par, tc.J, targ[1].s)
        IN  /\ tev[1] = a.value
            /\ tc.D = a.D
            /\ a.D = CZero => ~IsFinite(tev[1])

C11_Witness ==
    /\ Evaluated(1)
    /\ tc.J = 1 /\ tc.par.a01 = 1 /\ tc.par.b1 = 1 /\ tc.par.a00 # 0 /\ tc.par.a11 # 0
    /\ tc.D # CZero /\ tc.K01 # CZero /\ tc.G[1] # CZero /\ tc.G[2] # CZero
    /\ IsFinite(tev[1]) /\ tev[1] # CZero
    /\ tev[1] = C11_Amplitude(tc.par, tc.J, targ[1].s).value


-----------------------------------------------------------------------------
(* Further claims about contract.                                           *)

(* C12: for two rank-0 tensors contract(A, B) is the product of their       *)
(* single components with sign +1, and the call is served by the scalar     *)
(* overload, not by the loop over permutations(R).                          *)
C12_RankZeroScalarOverload ==
    (cdone /\ left.rank = 0) =>
        /\ cres = EMul(left.etype, left.comp[<< >>], right.comp[<< >>])
        /\ ctrace.overload = "scalar"
        /\ ctrace.enumerated = << >>

(* (-1)^(number of spatial indices in p).                                   *)
C13_Sign(p) ==
    IF Cardinality({i \in DOMAIN p : p[i] \in 1..3}) % 2 = 0 THEN 1 ELSE 0 - 1

(* The sum over the index sequences in S of A(p) * B(p), each weighted by   *)
(* its sign if signed, by +1 otherwise.                                     *)
RECURSIVE C13_Sum(_, _, _, _, _)
C13_Sum(etype, l, r, S, signed) ==
    IF S = {} THEN EZero(etype)
    ELSE LET p == CHOOSE q \in S : TRUE
         IN  EAdd(etype,
                  EScale(etype, IF signed THEN C13_Sign(p) ELSE 1,
                         EMul(etype, l.comp[p], r.comp[p])),
                  C13_Sum(etype, l, r, S \ {p}, signed))

(* C13: metric(mu) is +1 for index 0 and -1 for 1, 2, 3; the metric of an   *)
(* index sequence is the product over its entries, (-1)^(number of spatial  *)
(* indices), +1 for the empty sequence; a tensor contraction is the sum of  *)
(* A(p)*B(p) over the index sequences p, each weighted by exactly this sign *)
(* and with the same p on both operands (no off-diagonal terms).            *)
C13_MetricSigns ==
    (cdone /\ left.tensor) =>
        /\ \A mu \in LorentzIndex : metric(mu) = IF mu = 0 THEN 1 ELSE 0 - 1
        /\ \A k \in DOMAIN ctrace.enumerated :
              metricSeq(ctrace.enumerated[k]) = C13_Sign(ctrace.enumerated[k])
        /\ cres = C13_Sum(left.etype, left, right, IndexSeqs(left.rank), TRUE)

C13_Witness ==
    /\ cdone /\ left.tensor /\ left.rank = 2 /\ left.etype = "complex"
    /\ cres = C13_Sum("complex", left, right, IndexSeqs(2), TRUE)
    /\ cres # C13_Sum("complex", left, right, IndexSeqs(2), FALSE)
    /\ cres # CZero

(* C14: permutations(R) holds every index sequence of length R over        *)
(* {0,1,2,3} exactly once (4^R of them), so a rank-R contraction            *)
(* accumulates exactly 4^R terms, one per component of the tensors, and     *)
(* both operands have a component at every enumerated sequence.             *)
C14_AllSequencesOnce ==
    (cdone /\ left.tensor) =>
        LET e == ctrace.enumerated
        IN  /\ Len(e) = 4 ^ left.rank
            /\ {e[k] : k \in DOMAIN e} = IndexSeqs(left.rank)
            /\ \A j, k \in DOMAIN e : j # k => e[j] # e[k]
            /\ \A k \in DOMAIN e : e[k] \in DOMAIN left.comp /\ e[k] \in DOMAIN right.comp
            /\ DOMAIN left.comp = {e[k] : k \in DOMAIN e}
            /\ DOMAIN right.comp = {e[k] : k \in DOMAIN e}

C14_Witness ==
    /\ cdone /\ left.tensor /\ left.rank = 2
    /\ Len(ctrace.enumerated) = 16
    /\ Cardinality(DOMAIN left.comp) = 16
    /\ <<3, 0>> \in {ctrace.enumerated[k] : k \in DOMAIN ctrace.enumerated}


-----------------------------------------------------------------------------
(* Further claims about triple_regge.                                       *)

(* C15: a call d3sigma_d3p(s, t, m), one returning through the x = 1 guard  *)
(* or the Regge guard included, leaves every field of the model, of its     *)
(* sub-model and of its kinematics object unchanged.                        *)
C15_EvaluationIsPure ==
    [][D3Sigma => (tr' = tr /\ heap' = heap /\ kin_s' = kin_s)]_vars

(* C16: the mode flag at the call alone decides how m is read: in x-mode    *)
(* the phase-space piece is 1 - m and the sub-model is evaluated at         *)
(* s*(1 - m); in missing-mass mode the piece is m/s and the sub-model is    *)
(* evaluated at m.  (m is in units of 1/10000; the values are fractions     *)
(* <<numerator, denominator>>.)                                             *)
C16_ModeFlagSelects ==
    (trCall.has /\ ~trRet.zero) =>
        IF trCall.useTX
        THEN /\ trRet.s_piece = <<10000 - trCall.mm, 10000>>
             /\ trRet.sigma.at = <<trCall.s * (10000 - trCall.mm), 10000>>
        ELSE /\ trRet.s_piece = <<trCall.mm, 10000 * trCall.s>>
             /\ trRet.sigma.at = <<trCall.mm, 10000>>

C16_Witness ==
    /\ trCall.has /\ ~trRet.zero /\ trCall.useTX
    /\ trCall.mm = 9990 /\ trCall.s = 9
    /\ trRet.s_piece = <<10, 10000>>
    /\ trRet.sigma.at = <<90, 10000>>
    /\ ~tr.useTX

(* slope + alpha' - alpha' * log(-alpha' * t) < 0 with slope = 1.235 and    *)
(* alpha' = 0.7: log(0.7) = -0.357 at t = -1, log(21) = 3.045 at t = -30.   *)
C17_GammaBlowsUp(t) ==
    IF t = 0 - 1 THEN 1235 + 700 + 250 < 0 ELSE 1235 + 700 - 2131 < 0

(* C17: in Regge mode d3sigma_d3p returns 0 whenever                        *)
(* slope + alpha' - alpha' * log(-alpha' * t) < 0, without evaluating the   *)
(* signature factor, the gamma function or the sub-model; in fixed-spin     *)
(* mode this guard is never applied.                                        *)
C17_ReggeGuard ==
    trCall.has =>
        /\ (tr.useRegge /\ C17_GammaBlowsUp(trCall.t)) =>
              /\ trRet.zero
              /\ trCalled \cap {"signature", "cgamma", "sigma_tot"} = {}
              /\ trRet.guard \in {"x", "regge"}
        /\ (tr.useRegge /\ ~C17_GammaBlowsUp(trCall.t)) => trRet.guard # "regge"
        /\ ~tr.useRegge =>
              /\ trRet.guard # "regge"
              /\ "trajectory" \notin trCalled
              /\ trRet.guard = "none" => (~trRet.zero /\ "sigma_tot" \in trCalled)

C17_Witness ==
    /\ trCall.has /\ tr.useRegge /\ trCall.t = 0 - 30
    /\ trRet.zero /\ trRet.guard = "regge"
    /\ trCalled = {"coupling", "formfactor", "trajectory"}
    /\ ~trCall.useTX

-----------------------------------------------------------------------------
(* C20: helicity_amplitude returns 0 for every helicity combination other   *)
(* than helicities(0), and then neither stores (helicities, s, t) nor       *)
(* changes a scratch field; for helicities(0) it stores the inputs and      *)
(* returns sqrt(2) * (2J+1) * P_J(cos theta) * evaluate() (values are in    *)
(* units of sqrt(2)).                                                       *)
C20_OnlySelectedHelicity ==
    [][(tpc[1] # "done" /\ tpc'[1] = "done") =>
          IF targ'[1].hel # 0
          THEN tret'[1] = CZero /\ tc' = tc /\ tpc[1] = "idle"
          ELSE /\ tc'.hel = targ'[1].hel /\ tc'.s = targ'[1].s /\ tc'.t = targ'[1].t
               /\ tret'[1] =
                    CMul(CMul(CInt(2 * tc.J + 1),
                              legendre(tc.J, CosTheta(targ'[1].s, targ'[1].t))),
                         C11_Amplitude(tc.par, tc.J, targ'[1].s).value)]_vars

C20_Witness ==
    /\ tpc[1] = "done" /\ targ[1].hel # 0 /\ tret[1] = CZero
    /\ tprev # 0 /\ tc.s = tprev /\ targ[1].s # tc.s
    /\ tc.hel = 0 /\ tc.q # <<CZero, CZero>> /\ tc.J = 1


-----------------------------------------------------------------------------
(* C21: set_sigma_total with an option value that has no case label does    *)
(* not fail: the previous sub-model is released and the zero cross-section  *)
(* is installed; after any option value the model owns a live sub-model,    *)
(* and a later d3sigma_d3p evaluates the zero cross-section (so returns 0)  *)
(* and never a released or absent one.                                      *)
C21_UnnamedOptionGivesZero ==
    /\ (tr.init /\ trSel \in sigma_option) =>
          /\ trErr = "none"
          /\ IsLive(heap, tr.sigma_tot)
          /\ heap[tr.sigma_tot].model # NoModel
    /\ (tr.init /\ trSel \notin NamedOptions /\ trSel # "initialize") =>
          /\ heap[tr.sigma_tot].model = ZeroXsection
          /\ Cardinality(LiveCells) = 1
    /\ (trCall.has /\ trCall.sel \notin NamedOptions /\ trCall.sel # "initialize"
            /\ ~trRet.zero) =>
          /\ trRet.sigma.model = ZeroXsection
          /\ "sigma_tot" \in trCalled

C21_Witness ==
    /\ tr.init /\ trSel = "unnamed" /\ tr.name = "pseudoscalar_exchange"
    /\ trCall.has /\ trCall.sel = "unnamed" /\ ~trRet.zero
    /\ trRet.coupling2 # 0 /\ trRet.sigma.model = ZeroXsection
    /\ trErr = "none"


-----------------------------------------------------------------------------
(* C22: over any sequence of constructing, copying and destroying           *)
(* inclusive_production objects no inclusive_kinematics object is deleted   *)
(* twice, none is used after its deletion, every object alive refers to a   *)
(* kinematics object that is alive, and none stays allocated without an     *)
(* owner.                                                                   *)
C22_KinematicsReleasedOnce ==
    /\ ipErr = "none"
    /\ \A o \in Objects : ipObj[o].st = "alive" => kinHeap[ipObj[o].kin] = "live"
    /\ \A c \in KinCells :
          kinHeap[c] = "live" => \E o \in Objects : ipObj[o].st = "alive" /\ ipObj[o].kin = c


=============================================================================
